---- MODULE Spec2Model ----
(***************************************************************************)
(* A model of src/main.py: the text helpers (clean_text, clean_top5_item,  *)
(* top5_from_list), the four analyzers, calculate_risk and the /upload     *)
(* handler.                                                                *)
(*                                                                         *)
(* Text is modelled character by character: a Python str is a sequence of  *)
(* one-character strings, so that the regular expressions of the source    *)
(* act on what they act on in the program.                                 *)
(***************************************************************************)
EXTENDS Integers, Sequences, FiniteSets, TLC

VARIABLES
    items_in,        \* top5_from_list: the argument `items`
    top5_out,        \* top5_from_list: the returned list, or NoResult
    kind,            \* analyzer pass: which analyze_*_file is running
    doc,             \* analyzer pass: soup.find_all('div'), a sequence of blocks
    idx,             \* analyzer pass: number of divs the for loop has gone through
    categories,      \* analyzer pass: the dict `categories`
    items,           \* analyzer pass: items_for_top5 / search_terms / items
    video_titles,    \* analyze_youtube_file: video_titles
    search_queries,  \* analyze_youtube_file: search_queries
    activity_times,  \* analyzer pass: activity_times
    top5_data,       \* analyzer pass: the returned top5_data, or NoResult
    risk_in,         \* calculate_risk: [categories, recent, now]
    risk_out,        \* calculate_risk: the returned tuple, OverflowError, or NoResult
    req,             \* /upload: per request, the locals of upload_file
    fs               \* /upload: the files on disk, path -> the request that wrote it last

vars == <<items_in, top5_out, kind, doc, idx, categories, items, video_titles,
          search_queries, activity_times, top5_data, risk_in, risk_out, req, fs>>

\* a result not yet returned, and Python's None: the empty tuple, which is none of
\* the records, strings and non-empty lists the program computes
NoResult == <<>>
None == <<>>

(***************************************************************************)
(* Characters and strings                                                  *)
(***************************************************************************)
LowerSeq == <<"a","b","c","d","e","f","g","h","i","j","k","l","m",
              "n","o","p","q","r","s","t","u","v","w","x","y","z">>
UpperSeq == <<"A","B","C","D","E","F","G","H","I","J","K","L","M",
              "N","O","P","Q","R","S","T","U","V","W","X","Y","Z">>
Digits == {"0","1","2","3","4","5","6","7","8","9"}
Range(f) == {f[i] : i \in DOMAIN f}
LowerSet == Range(LowerSeq)
UpperSet == Range(UpperSeq)

\* \s of the re module, on the characters of the model
IsSpace(c) == c \in {" ", "\n", "\t"}
\* [A-Za-z0-9]
IsAlnum(c) == c \in LowerSet \cup UpperSet \cup Digits
\* \w of the re module: [A-Za-z0-9_]
IsWord(c) == IsAlnum(c) \/ c = "_"

\* str.lower() on one character
LowerChar(c) ==
    IF c \in UpperSet
    THEN LowerSeq[CHOOSE i \in DOMAIN UpperSeq : UpperSeq[i] = c]
    ELSE c

\* str.lower()
Lower(s) == [i \in DOMAIN s |-> LowerChar(s[i])]

\* s[i-1:] of Python, 1-based: the suffix of s starting at position i
From(s, i) == SubSeq(s, i, Len(s))

\* s.startswith(p)
StartsWith(s, p) == Len(p) <= Len(s) /\ SubSeq(s, 1, Len(p)) = p

\* s.endswith(p)
EndsWith(s, p) == Len(p) <= Len(s) /\ From(s, Len(s) - Len(p) + 1) = p

\* the least element of a non-empty set of integers
Min(S) == CHOOSE i \in S : \A j \in S : i <= j

\* the position of the first occurrence of sub in s, 0 when there is none
Find(sub, s) ==
    LET hits == {i \in 1..(Len(s) - Len(sub) + 1) : SubSeq(s, i, i + Len(sub) - 1) = sub}
    IN IF hits = {} THEN 0 ELSE Min(hits)

\* `sub in s`
Contains(sub, s) == Find(sub, s) # 0

\* s.split(sub, 1)[1], for s that contains sub
AfterFirst(sub, s) == From(s, Find(sub, s) + Len(sub))

\* s.split(sub)[0]
BeforeFirst(sub, s) == IF Contains(sub, s) THEN SubSeq(s, 1, Find(sub, s) - 1) ELSE s

\* the length of the longest prefix of s made of characters that are not whitespace
NonSpaceRun(s) ==
    LET stops == {i \in DOMAIN s : IsSpace(s[i])}
    IN IF stops = {} THEN Len(s) ELSE Min(stops) - 1

\* the length of the longest prefix of s made of whitespace
SpaceRun(s) ==
    LET stops == {i \in DOMAIN s : ~IsSpace(s[i])}
    IN IF stops = {} THEN Len(s) ELSE Min(stops) - 1

\* s.strip()
LStrip(s) == From(s, SpaceRun(s) + 1)
RStrip(s) ==
    LET keep == {i \in DOMAIN s : ~IsSpace(s[i])}
    IN IF keep = {} THEN <<>> ELSE SubSeq(s, 1, CHOOSE i \in keep : \A j \in keep : j <= i)
Strip(s) == RStrip(LStrip(s))

\* s.split(): the whitespace-separated words of s
RECURSIVE Split(_)
Split(s) ==
    LET t == LStrip(s)
        n == NonSpaceRun(t)
    IN IF t = <<>> THEN <<>> ELSE <<SubSeq(t, 1, n)>> \o Split(From(t, n + 1))

\* sep.join(words)
RECURSIVE Join(_, _)
Join(sep, words) ==
    IF words = <<>> THEN <<>>
    ELSE IF Len(words) = 1 THEN words[1]
    ELSE words[1] \o sep \o Join(sep, Tail(words))

(***************************************************************************)
(* clean_text                                                              *)
(***************************************************************************)
\* the length of the match of <[^>]+> at position i of s, 0 when it does not match:
\* "<", one or more characters other than ">", then the first ">"
TagMatchAt(s, i) ==
    LET close == Find(<<">">>, From(s, i + 1))   \* the first ">" after position i
    IN IF s[i] = "<" /\ close >= 2 THEN close + 1 ELSE 0

\* re.sub(r"<[^>]+>", "", s): the leftmost match goes, then the ones after it
RECURSIVE RemoveTags(_)
RemoveTags(s) ==
    LET hits == {i \in DOMAIN s : TagMatchAt(s, i) > 0}
        first == Min(hits)
    IN IF hits = {} THEN s
       ELSE SubSeq(s, 1, first - 1) \o RemoveTags(From(s, first + TagMatchAt(s, first)))

\* the length of the match of https?://\S+ at position i of s, 0 when it does not match
HttpMatchAt(s, i) ==
    LET plain  == <<"h","t","t","p",":","/","/">>
        secure == <<"h","t","t","p","s",":","/","/">>
        t == From(s, i)
        pre == IF StartsWith(t, secure) THEN Len(secure)
               ELSE IF StartsWith(t, plain) THEN Len(plain) ELSE 0
        run == NonSpaceRun(From(t, pre + 1))
    IN IF pre > 0 /\ run > 0 THEN pre + run ELSE 0

\* re.sub(r"https?://\S+", "", s)
RECURSIVE RemoveHttp(_)
RemoveHttp(s) ==
    LET hits == {i \in DOMAIN s : HttpMatchAt(s, i) > 0}
        first == Min(hits)
    IN IF hits = {} THEN s
       ELSE SubSeq(s, 1, first - 1) \o RemoveHttp(From(s, first + HttpMatchAt(s, first)))

\* the length of the match of www\.\S+ at position i of s, 0 when it does not match
WwwMatchAt(s, i) ==
    LET pre == <<"w","w","w",".">>
        t == From(s, i)
        run == NonSpaceRun(From(t, Len(pre) + 1))
    IN IF StartsWith(t, pre) /\ run > 0 THEN Len(pre) + run ELSE 0

\* re.sub(r"www\.\S+", "", s)
RECURSIVE RemoveWww(_)
RemoveWww(s) ==
    LET hits == {i \in DOMAIN s : WwwMatchAt(s, i) > 0}
        first == Min(hits)
    IN IF hits = {} THEN s
       ELSE SubSeq(s, 1, first - 1) \o RemoveWww(From(s, first + WwwMatchAt(s, first)))

\* re.sub(r"[^A-Za-z0-9\s]", " ", s)
RemoveSpecial(s) == [i \in DOMAIN s |-> IF IsAlnum(s[i]) \/ IsSpace(s[i]) THEN s[i] ELSE " "]

\* re.sub(r"\s+", " ", s): of every run of whitespace its first character stays, as " "
CollapseSpaces(s) ==
    LET keep == {i \in DOMAIN s : ~IsSpace(s[i]) \/ i = 1 \/ ~IsSpace(s[i - 1])}
        Nth(j) == CHOOSE i \in keep : Cardinality({k \in keep : k <= i}) = j
    IN [j \in 1..Cardinality(keep) |-> IF IsSpace(s[Nth(j)]) THEN " " ELSE s[Nth(j)]]

clean_text(s) ==
    IF s = <<>> THEN <<>>
    ELSE Lower(Strip(CollapseSpaces(RemoveSpecial(RemoveWww(RemoveHttp(RemoveTags(s)))))))

(***************************************************************************)
(* clean_top5_item, Counter, top5_from_list                                *)
(***************************************************************************)
junk_words == {<<"h","e","r","e">>, <<"c","l","i","c","k">>, <<"l","o","g","i","n">>,
               <<"h","o","m","e">>, <<"o","k">>}

KeepWord(w) == w \notin junk_words /\ Len(w) > 2

clean_top5_item(s) == Strip(Join(<<" ">>, SelectSeq(Split(s), KeepWord)))

\* collections.Counter(seq): the (label, count) pairs in first-encountered order
RECURSIVE Counter(_)
Counter(seq) ==
    IF seq = <<>> THEN <<>>
    ELSE LET init == Counter(SubSeq(seq, 1, Len(seq) - 1))
             x == seq[Len(seq)]
             at == {i \in DOMAIN init : init[i][1] = x}
         IN IF at = {} THEN Append(init, <<x, 1>>)
            ELSE [i \in DOMAIN init |-> IF i \in at THEN <<x, init[i][2] + 1>> ELSE init[i]]

\* seq without its element at position i
RemoveAt(seq, i) == SubSeq(seq, 1, i - 1) \o SubSeq(seq, i + 1, Len(seq))

\* most_common with an unstable order: among equal counts the pair encountered
\* last comes first
RECURSIVE most_common_LastFirst(_, _)
most_common_LastFirst(pairs, n) ==
    IF n = 0 \/ pairs = <<>> THEN <<>>
    ELSE LET best == CHOOSE i \in DOMAIN pairs :
                        /\ \A j \in DOMAIN pairs : pairs[j][2] <= pairs[i][2]
                        /\ \A j \in DOMAIN pairs : pairs[j][2] = pairs[i][2] => j <= i
         IN <<pairs[best]>> \o most_common_LastFirst(RemoveAt(pairs, best), n - 1)

\* Counter.most_common(n): heapq.nlargest(n, items, key=count), which is
\* sorted(items, key=count, reverse=True)[:n]: a stable sort, so among equal counts
\* the pair encountered first comes first.
RECURSIVE most_common(_, _)
most_common(pairs, n) ==
    IF n = 0 \/ pairs = <<>> THEN <<>>
    ELSE LET best == CHOOSE i \in DOMAIN pairs :
                        /\ \A j \in DOMAIN pairs : pairs[j][2] <= pairs[i][2]
                        /\ \A j \in DOMAIN pairs : pairs[j][2] = pairs[i][2] => i <= j
         IN <<pairs[best]>> \o most_common(RemoveAt(pairs, best), n - 1)

\* sum(counter.values())
RECURSIVE SumCounts(_)
SumCounts(pairs) == IF pairs = <<>> THEN 0 ELSE Head(pairs)[2] + SumCounts(Tail(pairs))

NoDataFound == <<"N","o"," ","d","a","t","a"," ","f","o","u","n","d">>
Sentinel == << <<NoDataFound, 0>> >>
TopN == 5

NonEmpty(s) == s # <<>>
HasText(x) == clean_text(x) # <<>>
CleanItem(x) == clean_top5_item(clean_text(x))

top5_from_list(xs) ==
    LET kept == SelectSeq(xs, HasText)
        cleaned_items == SelectSeq([i \in DOMAIN kept |-> CleanItem(kept[i])], NonEmpty)
    IN IF cleaned_items = <<>> THEN Sentinel
       ELSE most_common(Counter(cleaned_items), TopN)

(***************************************************************************)
(* Record blocks: what the analyzers read of one <div>                     *)
(*   strings  the stripped text pieces of the div, in document order       *)
(*            (BeautifulSoup's stripped_strings): get_text(separator=sep,  *)
(*            strip=True) is sep.join(strings)                             *)
(*   a        None, or the first <a> of the div: its get_text(strip=True)  *)
(*            and its href                                                 *)
(*   span_dt  what parse_datetime gives on the first <span> of the div:    *)
(*            a datetime, or None (no span, or a label strptime rejects)   *)
(* A datetime is [day |-> proleptic ordinal, minute |-> minute of day].    *)
(***************************************************************************)
\* U+2022, the bullet of " • "
Bullet == "BULLET"

get_text(div, sep) == Join(sep, div.strings)

\* \b of the re module at position i of s (between s[i-1] and s[i])
WordBoundary(s, i) ==
    LET before == i - 1 \in DOMAIN s /\ IsWord(s[i - 1])
        after == i \in DOMAIN s /\ IsWord(s[i])
    IN before # after

\* re.sub(r"^(for|on|about)\s+", "", term, flags=re.I)
StripConnector(term) ==
    LET low == Lower(term)
        Cut(w) == IF StartsWith(low, w) /\ SpaceRun(From(term, Len(w) + 1)) > 0
                  THEN Len(w) + SpaceRun(From(term, Len(w) + 1)) ELSE 0
        n == IF Cut(<<"f","o","r">>) > 0 THEN Cut(<<"f","o","r">>)
             ELSE IF Cut(<<"o","n">>) > 0 THEN Cut(<<"o","n">>)
             ELSE Cut(<<"a","b","o","u","t">>)
    IN From(term, n + 1)

\* the length of the match of \bat \d{1,2}:\d{2}\b at position i of s, 0 when none
TimeMatchAt(s, i) ==
    LET Is(j, c) == j \in DOMAIN s /\ s[j] = c
        Digit(j) == j \in DOMAIN s /\ s[j] \in Digits
        Tail2(j) == Is(j, ":") /\ Digit(j + 1) /\ Digit(j + 2) /\ WordBoundary(s, j + 3)
        head == WordBoundary(s, i) /\ Is(i, "a") /\ Is(i + 1, "t") /\ Is(i + 2, " ")
    IN IF head /\ Digit(i + 3) /\ Digit(i + 4) /\ Tail2(i + 5) THEN 8
       ELSE IF head /\ Digit(i + 3) /\ Tail2(i + 4) THEN 7
       ELSE 0

\* .*$ after a match ending before position j: . does not match a newline, and $
\* matches at the end of the string or before a newline that ends it
RestMatches(s, j) ==
    LET nl == Find(<<"\n">>, From(s, j))
    IN nl = 0 \/ nl = Len(From(s, j))

\* re.sub(r"\bat \d{1,2}:\d{2}\b.*$", "", term)
StripTime(term) ==
    LET hits == {i \in DOMAIN term : TimeMatchAt(term, i) > 0
                                      /\ RestMatches(term, i + TimeMatchAt(term, i))}
        first == Min(hits)
    IN IF hits = {} THEN term
       ELSE SubSeq(term, 1, first - 1)
            \o (IF term[Len(term)] = "\n" THEN <<"\n">> ELSE <<>>)

\* dict(d, **{k: d[k] + 1})
Inc(d, k) == [d EXCEPT ![k] = @ + 1]

\* the timestamp extraction every analyzer ends a block with
AddTime(times, div) == IF div.span_dt # None THEN Append(times, div.span_dt) ELSE times

\* what one pass carries from block to block
PassStart(cats) ==
    [categories |-> cats, items |-> <<>>, video_titles |-> <<>>,
     search_queries |-> <<>>, activity_times |-> <<>>]

(***************************************************************************)
(* analyze_generic_file                                                    *)
(***************************************************************************)
GenericCategories ==
    [c \in {"Search", "YouTube", "Maps", "Shopping", "Discover", "Other"} |-> 0]

GenericCategory(low) ==
    IF Contains(<<"s","e","a","r","c","h","e","d">>, low) \/ Contains(<<"s","e","a","r","c","h">>, low) THEN "Search"
    ELSE IF Contains(<<"y","o","u","t","u","b","e">>, low) \/ Contains(<<"w","a","t","c","h","e","d">>, low) THEN "YouTube"
    ELSE IF Contains(<<"m","a","p","s">>, low) \/ Contains(<<"l","o","c","a","t","i","o","n">>, low)
            \/ Contains(<<"p","l","a","c","e">>, low) THEN "Maps"
    ELSE IF Contains(<<"s","h","o","p","p","i","n","g">>, low) \/ Contains(<<"p","r","o","d","u","c","t">>, low) THEN "Shopping"
    ELSE IF Contains(<<"d","i","s","c","o","v","e","r">>, low) THEN "Discover"
    ELSE "Other"

\* analyze_generic_file with the chain broken after its first test (`if` where the
\* source has `elif`): a block that mentions a search is counted a second time
GenericStep_BrokenChain(st, div) ==
    LET text == get_text(div, <<" ">>)
        low == Lower(text)
        chunk == clean_text(BeforeFirst(<<" ", Bullet, " ">>, text))
        rest == IF Contains(<<"y","o","u","t","u","b","e">>, low) \/ Contains(<<"w","a","t","c","h","e","d">>, low) THEN "YouTube"
                ELSE IF Contains(<<"m","a","p","s">>, low) \/ Contains(<<"l","o","c","a","t","i","o","n">>, low)
                        \/ Contains(<<"p","l","a","c","e">>, low) THEN "Maps"
                ELSE IF Contains(<<"s","h","o","p","p","i","n","g">>, low) \/ Contains(<<"p","r","o","d","u","c","t">>, low)
                     THEN "Shopping"
                ELSE IF Contains(<<"d","i","s","c","o","v","e","r">>, low) THEN "Discover"
                ELSE "Other"
    IN [st EXCEPT
          !.categories = Inc(IF Contains(<<"s","e","a","r","c","h">>, low) THEN Inc(@, "Search") ELSE @,
                             rest),
          !.items = IF div.a # None THEN Append(@, div.a.text)
                    ELSE IF chunk # <<>> THEN Append(@, chunk) ELSE @,
          !.activity_times = AddTime(@, div)]

\* one iteration of the for loop of analyze_generic_file
GenericStep(st, div) ==
    LET text == get_text(div, <<" ">>)
        low == Lower(text)
        chunk == clean_text(BeforeFirst(<<" ", Bullet, " ">>, text))
    IN [st EXCEPT
          !.categories = Inc(@, GenericCategory(low)),
          !.items = IF div.a # None THEN Append(@, div.a.text)
                    ELSE IF chunk # <<>> THEN Append(@, chunk) ELSE @,
          !.activity_times = AddTime(@, div)]

GenericReturn(st) ==
    [categories |-> st.categories, top5_data |-> top5_from_list(st.items),
     activity_times |-> st.activity_times]

(***************************************************************************)
(* analyze_search_file                                                     *)
(***************************************************************************)
SearchCategories == [c \in {"Search", "Other"} |-> 0]

SearchPhrases == <<<<"S","e","a","r","c","h","e","d"," ","f","o","r">>, <<"Y","o","u"," ","s","e","a","r","c","h","e","d"," ","f","o","r">>, <<"S","e","a","r","c","h","e","d"," ","o","n"," ","G","o","o","g","l","e"," ","f","o","r">>>>

\* the term the loop body makes of the text after the phrase
SearchTerm(text, phrase) == StripTime(StripConnector(clean_text(AfterFirst(phrase, text))))

\* one iteration of the outer for loop of analyze_search_file: the inner loop stops
\* (break) at the first phrase the text contains
SearchStep(st, div) ==
    LET text == get_text(div, <<" ">>)
        found == {i \in DOMAIN SearchPhrases : Contains(SearchPhrases[i], text)}
        first == Min(found)
        term == SearchTerm(text, SearchPhrases[first])
    IN [st EXCEPT
          !.categories = IF found # {} THEN Inc(@, "Search") ELSE Inc(@, "Other"),
          !.items = IF found # {} /\ term # <<>> THEN Append(@, term) ELSE @,
          !.activity_times = AddTime(@, div)]

SearchReturn(st) ==
    [categories |-> st.categories, top5_data |-> top5_from_list(st.items),
     activity_times |-> st.activity_times]

(***************************************************************************)
(* analyze_youtube_file                                                    *)
(***************************************************************************)
YoutubeCategories ==
    [c \in {"YouTube", "Search", "Maps", "Shopping", "Discover", "Other"} |-> 0]

YoutubePhrases == <<<<"S","e","a","r","c","h","e","d"," ","f","o","r">>, <<"S","e","a","r","c","h"," ","f","o","r">>, <<"S","e","a","r","c","h","e","d"," ","o","n"," ","Y","o","u","T","u","b","e"," ","f","o","r">>>>

RemovedVideo == <<"w","a","t","c","h","e","d"," ","a"," ","v","i","d","e","o"," ","t","h","a","t"," ","h","a","s"," ","b","e","e","n"," ","r","e","m","o","v","e","d">>

\* the query the loop body makes of the text after the phrase
YoutubeQuery(text, phrase) == StripConnector(clean_text(AfterFirst(phrase, text)))

\* the inner for loop of analyze_youtube_file from phrase i on: every phrase the text
\* contains appends its query (the loop has no break)
RECURSIVE YoutubeQueries(_, _, _)
YoutubeQueries(queries, text, i) ==
    IF i > Len(YoutubePhrases) THEN queries
    ELSE LET phrase == YoutubePhrases[i]
             q == YoutubeQuery(text, phrase)
         IN YoutubeQueries(IF Contains(phrase, text) /\ q # <<>>
                           THEN Append(queries, q) ELSE queries,
                           text, i + 1)

\* one iteration of the outer for loop of analyze_youtube_file
YoutubeStep(st, div) ==
    LET text == get_text(div, <<" ">>)
        title == clean_text(div.a.text)
        watched == /\ div.a # None
                   /\ \/ Contains(<<"y","o","u","t","u","b","e",".","c","o","m">>, div.a.href)
                      \/ Contains(<<"y","o","u","t","u",".","b","e">>, div.a.href)
                   /\ title # <<>>
                   /\ ~StartsWith(Lower(title), RemovedVideo)
    IN [st EXCEPT
          !.search_queries = YoutubeQueries(@, text, 1),
          !.video_titles = IF watched THEN Append(@, title) ELSE @,
          !.activity_times = AddTime(@, div)]

YoutubeReturn(st) ==
    [categories |-> [st.categories EXCEPT !["YouTube"] = Len(st.video_titles),
                                          !["Search"] = Len(st.search_queries)],
     top5_data |-> top5_from_list(st.search_queries \o st.video_titles),
     activity_times |-> st.activity_times]

(***************************************************************************)
(* analyze_discover_file                                                   *)
(***************************************************************************)
DiscoverCategories == [c \in {"Discover"} |-> 0]

\* str.splitlines(), on "\n"
RECURSIVE SplitLines(_)
SplitLines(s) ==
    LET nl == Find(<<"\n">>, s)
    IN IF s = <<>> THEN <<>>
       ELSE IF nl = 0 THEN <<s>>
       ELSE <<SubSeq(s, 1, nl - 1)>> \o SplitLines(From(s, nl + 1))

\* [ln.strip() for ln in text.splitlines() if ln.strip()]
Lines(text) ==
    LET raw == SplitLines(text)
    IN SelectSeq([i \in DOMAIN raw |-> Strip(raw[i])], NonEmpty)

Viewed == <<"v","i","e","w","e","d">>

\* re.sub(r'\s*-\s*viewed$', '', ln, flags=re.I).strip()
StripDashViewed(ln) ==
    LET head == RStrip(SubSeq(ln, 1, Len(ln) - Len(Viewed)))
    IN IF EndsWith(Lower(ln), Viewed) /\ head # <<>> /\ head[Len(head)] = "-"
       THEN Strip(SubSeq(head, 1, Len(head) - 1))
       ELSE Strip(ln)

\* re.sub(r'viewed$', '', clean, flags=re.I).strip()
StripViewed(ln) ==
    IF EndsWith(Lower(ln), Viewed) THEN Strip(SubSeq(ln, 1, Len(ln) - Len(Viewed)))
    ELSE Strip(ln)

\* \bw\b matches at position i of s
WordAt(s, i, w) ==
    /\ WordBoundary(s, i)
    /\ StartsWith(From(s, i), w)
    /\ WordBoundary(s, i + Len(w))

\* re.search(r'\bcard(s)?\b|\bin your feed\b', clean, flags=re.I)
IsFeedNoise(clean) ==
    LET low == Lower(clean)
    IN \E i \in DOMAIN low :
          \/ WordAt(low, i, <<"c","a","r","d","s">>)
          \/ WordAt(low, i, <<"c","a","r","d">>)
          \/ WordAt(low, i, <<"i","n"," ","y","o","u","r"," ","f","e","e","d">>)

\* start_index: the line after the first line that starts with 'details', else 1
\* (0-based in the source; here the 1-based position of the first line to read)
StartIndex(lines) ==
    LET hits == {i \in DOMAIN lines : StartsWith(Lower(lines[i]), <<"d","e","t","a","i","l","s">>)}
    IN IF hits = {} THEN 2 ELSE Min(hits) + 1

\* the loop over lines[start_index:], from position i on
RECURSIVE DiscoverItems(_, _, _)
DiscoverItems(acc, lines, i) ==
    IF i > Len(lines) THEN acc
    ELSE IF StartsWith(Lower(lines[i]), <<"w","h","y"," ","i","s"," ","t","h","i","s"," ","h","e","r","e">>) THEN acc
    ELSE LET clean == StripViewed(StripDashViewed(lines[i]))
         IN IF IsFeedNoise(clean) THEN DiscoverItems(acc, lines, i + 1)
            ELSE IF clean_text(clean) # <<>>
                 THEN DiscoverItems(Append(acc, clean_text(clean)), lines, i + 1)
            ELSE DiscoverItems(acc, lines, i + 1)

\* is_discover
IsDiscover(lines) ==
    LET first_line == Lower(lines[1])
        block_text_lower == Lower(Join(<<"\n">>, lines))
    IN \/ Contains(<<"d","i","s","c","o","v","e","r">>, first_line)
       \/ /\ Contains(<<"p","r","o","d","u","c","t","s",":">>, block_text_lower)
          /\ Contains(<<"d","i","s","c","o","v","e","r">>, block_text_lower)

\* one iteration of the outer for loop of analyze_discover_file; the three
\* `continue`s leave the block without reading its timestamp
DiscoverStep(st, div) ==
    LET text == get_text(div, <<"\n">>)
        lines == Lines(text)
    IN IF text = <<>> \/ lines = <<>> THEN st
       ELSE IF ~IsDiscover(lines) THEN st
       ELSE [st EXCEPT
               !.items = DiscoverItems(@, lines, StartIndex(lines)),
               !.activity_times = AddTime(@, div)]

DiscoverReturn(st) ==
    [categories |-> [st.categories EXCEPT !["Discover"] = SumCounts(Counter(st.items))],
     top5_data |-> IF st.items # <<>> THEN most_common(Counter(st.items), TopN)
                   ELSE Sentinel,
     activity_times |-> st.activity_times]

(***************************************************************************)
(* Inputs of the model                                                     *)
(***************************************************************************)
\* the sequences over S of length at most n
SeqsUpTo(S, n) == UNION {[1..k -> S] : k \in 0..n}

MaxItems == 4
MaxBlocks == 2

\* raw items handed to top5_from_list
ItemPool == {<<"a">>, <<"b">>, <<"a","b","c">>, <<"b","c","d">>, <<"C","l","i","c","k"," ","h","e","r","e">>}

Time1 == [day |-> 739921, minute |-> 630]

\* <div>Searched for cats and dogs at 10:30</div>
BlockSearchTime ==
    [strings |-> <<<<"S","e","a","r","c","h","e","d"," ","f","o","r"," ","c","a","t","s"," ","a","n","d"," ","d","o","g","s"," ","a","t"," ","1","0",":","3","0">>>>, a |-> None, span_dt |-> None]
\* <div>Searched for how to Search for cats</div>
BlockTwoPhrases ==
    [strings |-> <<<<"S","e","a","r","c","h","e","d"," ","f","o","r"," ","h","o","w"," ","t","o"," ","S","e","a","r","c","h"," ","f","o","r"," ","c","a","t","s">>>>, a |-> None, span_dt |-> None]
\* <div>Searched for ?!</div>: nothing is left of the query
BlockEmptyQuery ==
    [strings |-> <<<<"S","e","a","r","c","h","e","d"," ","f","o","r"," ","?","!">>>>, a |-> None, span_dt |-> None]
\* <div>Watched <a href="https://www.youtube.com/watch?v=1">Cat video</a>
\*      <span>November 1, 2026 at 10:30</span></div>
BlockWatched ==
    [strings |-> <<<<"W","a","t","c","h","e","d">>, <<"C","a","t"," ","v","i","d","e","o">>, <<"N","o","v","e","m","b","e","r"," ","1",","," ","2","0","2","6"," ","a","t"," ","1","0",":","3","0">>>>,
     a |-> [text |-> <<"C","a","t"," ","v","i","d","e","o">>, href |-> <<"h","t","t","p","s",":","/","/","w","w","w",".","y","o","u","t","u","b","e",".","c","o","m","/","w","a","t","c","h","?","v","=","1">>],
     span_dt |-> Time1]
\* <div><a href="https://youtu.be/x">Watched a video that has been removed</a></div>
BlockRemoved ==
    [strings |-> <<<<"W","a","t","c","h","e","d"," ","a"," ","v","i","d","e","o"," ","t","h","a","t"," ","h","a","s"," ","b","e","e","n"," ","r","e","m","o","v","e","d">>>>,
     a |-> [text |-> <<"W","a","t","c","h","e","d"," ","a"," ","v","i","d","e","o"," ","t","h","a","t"," ","h","a","s"," ","b","e","e","n"," ","r","e","m","o","v","e","d">>,
            href |-> <<"h","t","t","p","s",":","/","/","y","o","u","t","u",".","b","e","/","x">>],
     span_dt |-> None]
\* <div>Discover<br>Details<br>Click here<br>Big news - Viewed<br>2 cards in your feed
\*      <br>Why is this here?<br>ignored</div>
BlockDiscover ==
    [strings |-> <<<<"D","i","s","c","o","v","e","r">>, <<"D","e","t","a","i","l","s">>, <<"C","l","i","c","k"," ","h","e","r","e">>, <<"B","i","g"," ","n","e","w","s"," ","-"," ","V","i","e","w","e","d">>,
                   <<"2"," ","c","a","r","d","s"," ","i","n"," ","y","o","u","r"," ","f","e","e","d">>, <<"W","h","y"," ","i","s"," ","t","h","i","s"," ","h","e","r","e","?">>, <<"i","g","n","o","r","e","d">>>>,
     a |-> None, span_dt |-> None]
\* <div>Used Maps • directions home</div>
BlockMaps ==
    [strings |-> <<<<"U","s","e","d"," ","M","a","p","s"," ",Bullet," ","d","i","r","e","c","t","i","o","n","s"," ","h","o","m","e">>>>, a |-> None, span_dt |-> None]
\* <div>Some Card Title</div>
BlockOther ==
    [strings |-> <<<<"S","o","m","e"," ","C","a","r","d"," ","T","i","t","l","e">>>>, a |-> None, span_dt |-> None]
\* <div></div>
BlockEmpty == [strings |-> <<>>, a |-> None, span_dt |-> None]

Blocks == {BlockSearchTime, BlockTwoPhrases, BlockEmptyQuery, BlockWatched, BlockRemoved,
           BlockDiscover, BlockMaps, BlockOther, BlockEmpty}

Kinds == {"generic", "search", "youtube", "discover"}

StartCategories(k) ==
    CASE k = "generic" -> GenericCategories
      [] k = "search" -> SearchCategories
      [] k = "youtube" -> YoutubeCategories
      [] k = "discover" -> DiscoverCategories

(***************************************************************************)
(* Idle values: the variables of the parts a specification does not run    *)
(***************************************************************************)
Top5Idle == items_in = <<>> /\ top5_out = NoResult
PassIdle ==
    /\ kind = "none" /\ doc = <<>> /\ idx = 0 /\ categories = <<>> /\ items = <<>>
    /\ video_titles = <<>> /\ search_queries = <<>> /\ activity_times = <<>>
    /\ top5_data = NoResult
RiskIdle == risk_in = NoResult /\ risk_out = NoResult
UploadIdle == req = <<>> /\ fs = <<>>

top5Vars == <<items_in, top5_out>>
passVars == <<kind, doc, idx, categories, items, video_titles, search_queries,
              activity_times, top5_data>>
riskVars == <<risk_in, risk_out>>
uploadVars == <<req, fs>>

(***************************************************************************)
(* top5_from_list on bounded item lists                                    *)
(***************************************************************************)
InitTop5 ==
    /\ items_in \in SeqsUpTo(ItemPool, MaxItems)
    /\ top5_out = NoResult
    /\ PassIdle /\ RiskIdle /\ UploadIdle

CallTop5 ==
    /\ top5_out = NoResult
    /\ top5_out' = top5_from_list(items_in)
    /\ UNCHANGED <<items_in, passVars, riskVars, uploadVars>>

NextTop5 == CallTop5

SpecTop5 == InitTop5 /\ [][NextTop5]_vars

(***************************************************************************)
(* One analyzer pass over a bounded document, block by block               *)
(***************************************************************************)
Pass ==
    [categories |-> categories, items |-> items, video_titles |-> video_titles,
     search_queries |-> search_queries, activity_times |-> activity_times]

SetPass(st) ==
    /\ categories' = st.categories
    /\ items' = st.items
    /\ video_titles' = st.video_titles
    /\ search_queries' = st.search_queries
    /\ activity_times' = st.activity_times

InitPass ==
    /\ kind \in Kinds
    /\ doc \in SeqsUpTo(Blocks, MaxBlocks)
    /\ idx = 0
    /\ categories = StartCategories(kind)
    /\ items = <<>> /\ video_titles = <<>> /\ search_queries = <<>>
    /\ activity_times = <<>>
    /\ top5_data = NoResult
    /\ Top5Idle /\ RiskIdle /\ UploadIdle

\* the loop body runs on the next div
BlockStep(k, st) ==
    /\ kind = k
    /\ top5_data = NoResult
    /\ idx < Len(doc)
    /\ SetPass(st)
    /\ idx' = idx + 1
    /\ UNCHANGED <<kind, doc, top5_data, top5Vars, riskVars, uploadVars>>

\* the loop is over: the statements after it, and the return
ReturnStep(k, r) ==
    /\ kind = k
    /\ top5_data = NoResult
    /\ idx = Len(doc)
    /\ categories' = r.categories
    /\ top5_data' = r.top5_data
    /\ activity_times' = r.activity_times
    /\ UNCHANGED <<kind, doc, idx, items, video_titles, search_queries,
                   top5Vars, riskVars, uploadVars>>

GenericBlock == BlockStep("generic", GenericStep(Pass, doc[idx + 1]))
GenericFinish == ReturnStep("generic", GenericReturn(Pass))
SearchBlock == BlockStep("search", SearchStep(Pass, doc[idx + 1]))
SearchFinish == ReturnStep("search", SearchReturn(Pass))
YoutubeBlock == BlockStep("youtube", YoutubeStep(Pass, doc[idx + 1]))
YoutubeFinish == ReturnStep("youtube", YoutubeReturn(Pass))
DiscoverBlock == BlockStep("discover", DiscoverStep(Pass, doc[idx + 1]))
DiscoverFinish == ReturnStep("discover", DiscoverReturn(Pass))

NextPass ==
    \/ GenericBlock \/ GenericFinish
    \/ SearchBlock \/ SearchFinish
    \/ YoutubeBlock \/ YoutubeFinish
    \/ DiscoverBlock \/ DiscoverFinish

SpecPass == InitPass /\ [][NextPass]_vars

(***************************************************************************)
(* calculate_risk                                                          *)
(*                                                                         *)
(* The floats of the source are fixed-point numbers here, in millionths    *)
(* (Micro). math.log and math.exp are tabulated, rounded to the nearest    *)
(* millionth. A score of 15 or more gives percent 100 and tier High        *)
(* whatever its size, so scores saturate at RiskCap, which keeps every     *)
(* intermediate value inside TLC's 32-bit integers.                        *)
(***************************************************************************)
Micro == 1000000
RiskCap == 16000000

\* round(math.log(n) * 10^6) for n = 1..64
LogTable ==
    <<0, 693147, 1098612, 1386294, 1609438, 1791759, 1945910, 2079442,
      2197225, 2302585, 2397895, 2484907, 2564949, 2639057, 2708050, 2772589,
      2833213, 2890372, 2944439, 2995732, 3044522, 3091042, 3135494, 3178054,
      3218876, 3258097, 3295837, 3332205, 3367296, 3401197, 3433987, 3465736,
      3496508, 3526361, 3555348, 3583519, 3610918, 3637586, 3663562, 3688879,
      3713572, 3737670, 3761200, 3784190, 3806662, 3828641, 3850148, 3871201,
      3891820, 3912023, 3931826, 3951244, 3970292, 3988984, 4007333, 4025352,
      4043051, 4060443, 4077537, 4094345, 4110874, 4127134, 4143135, 4158883>>

\* math.log(1 + count), in millionths; beyond the table only math.log(10001), for the
\* 10,000 records of the spec's pathological input
Log1p(count) ==
    IF count = 10000 THEN 9210440 ELSE LogTable[count + 1]

\* round(math.exp(-d / 7) * 10^6) for d = -18..101
ExpTable ==
    <<13084503, 11342667, 9832707, 8523756, 7389056, 6405409, 5552708, 4813520,
      4172734, 3617251, 3135715, 2718282, 2356418, 2042727, 1770795, 1535063,
      1330712, 1153565, 1000000, 866878, 751477, 651439, 564718, 489542,
      424373, 367879, 318907, 276453, 239651, 207748, 180092, 156118,
      135335, 117319, 101701, 88163, 76426, 66252, 57433, 49787,
      43159, 37414, 32433, 28116, 24373, 21128, 18316, 15877,
      13764, 11932, 10343, 8966, 7773, 6738, 5841, 5063,
      4389, 3805, 3299, 2859, 2479, 2149, 1863, 1615,
      1400, 1213, 1052, 912, 790, 685, 594, 515,
      446, 387, 335, 291, 252, 219, 189, 164,
      142, 123, 107, 93, 80, 70, 60, 52,
      45, 39, 34, 30, 26, 22, 19, 17,
      14, 13, 11, 9, 8, 7, 6, 5,
      5, 4, 3, 3, 3, 2, 2, 2,
      1, 1, 1, 1, 1, 1, 1, 1>>
ExpTableFirst == -18
\* math.exp raises OverflowError ("math range error") above exp(709.78):
\* -days_ago / 7 is beyond it from days_ago = -4969 down
ExpOverflowDays == -4969

\* math.exp(-days_ago / 7) overflows
ExpOverflows(days_ago) == days_ago <= ExpOverflowDays

\* math.exp(-days_ago / 7), in millionths, where it does not overflow: 15.09 and more
\* below -18 days (saturated), less than half a millionth above 101 days
ExpDecay(days_ago) ==
    IF days_ago < ExpTableFirst THEN RiskCap
    ELSE IF days_ago >= ExpTableFirst + Len(ExpTable) THEN 0
    ELSE ExpTable[days_ago - ExpTableFirst + 1]

\* weights.get(cat, 1)
Weight(cat) ==
    CASE cat = "Search" -> 1
      [] cat = "YouTube" -> 2
      [] cat = "Maps" -> 3
      [] cat = "Shopping" -> 2
      [] cat = "Discover" -> 1
      [] cat = "Other" -> 1
      [] OTHER -> 1

\* (now - act_time).days: the whole days of the timedelta, rounded down
DaysAgo(now, act_time) ==
    (now.day - act_time.day) - (IF now.minute < act_time.minute THEN 1 ELSE 0)

Saturate(x) == IF x > RiskCap THEN RiskCap ELSE x

\* base_risk: sum(weights.get(cat, 1) * math.log(1 + count) for cat, count in ...)
RECURSIVE BaseRisk(_, _)
BaseRisk(cats, keys) ==
    IF keys = {} THEN 0
    ELSE LET k == CHOOSE c \in keys : TRUE
         IN Saturate(Weight(k) * Log1p(cats[k]) + BaseRisk(cats, keys \ {k}))

\* recent_risk: the sum of math.exp(-days_ago / 7) over recent_activities
RECURSIVE RecentRisk(_, _)
RecentRisk(recent, now) ==
    IF recent = <<>> THEN 0
    ELSE Saturate(ExpDecay(DaysAgo(now, Head(recent))) + RecentRisk(Tail(recent), now))

TotalRisk(cats, recent, now) ==
    Saturate(BaseRisk(cats, DOMAIN cats) + RecentRisk(recent, now))

\* the percent taken of a range of 0..10 instead of 0..15
RiskPercent_OfTen(total_risk) ==
    LET scaled == (total_risk * 100) \div (10 * Micro)
    IN IF scaled > 100 THEN 100 ELSE IF scaled < 0 THEN 0 ELSE scaled

\* int(max(0, min(100, (total_risk / 15.0) * 100)))
RiskPercent(total_risk) ==
    LET scaled == (total_risk * 100) \div (15 * Micro)
    IN IF scaled > 100 THEN 100 ELSE IF scaled < 0 THEN 0 ELSE scaled

LowRisk ==
    [tier |-> "Low", color |-> "green", message |-> "Low tracking detected.",
     suggestions |-> <<"Keep privacy settings reviewed monthly.",
                       "Use incognito for sensitive searches.",
                       "Periodically clear browsing history.">>]
MediumRisk ==
    [tier |-> "Medium", color |-> "#ffcc00", message |-> "Moderate tracking detected.",
     suggestions |-> <<"Turn off Location History in Google settings.",
                       "Review connected apps and revoke unused permissions.",
                       "Use a privacy-focused browser (Brave/Firefox) for routine browsing.">>]
\* the first suggestion holds U+25B6 in the source, written [U+25B6] here
HighRisk ==
    [tier |-> "High", color |-> "red", message |-> "Heavy tracking detected recently.",
     suggestions |-> <<"Pause Web & App Activity (Google Account [U+25B6] Data & privacy).",
                       "Delete recent activity from My Activity.",
                       "Consider a VPN for browsing and disable ad personalization.">>]

\* the tier taken from the percent (20 and 66) instead of the total score
RiskTier_ByPercent(total_risk) ==
    IF RiskPercent(total_risk) <= 20 THEN LowRisk
    ELSE IF RiskPercent(total_risk) <= 66 THEN MediumRisk
    ELSE HighRisk

\* the if / elif / else on total_risk
RiskTier(total_risk) ==
    IF total_risk <= 3 * Micro THEN LowRisk
    ELSE IF total_risk <= 10 * Micro THEN MediumRisk
    ELSE HighRisk

OverflowError == [error |-> "OverflowError: math range error"]

\* calculate_risk(categories, recent_activities), called at the moment `now`
calculate_risk(cats, recent, now) ==
    IF \E i \in DOMAIN recent : ExpOverflows(DaysAgo(now, recent[i]))
    THEN OverflowError
    ELSE LET total_risk == TotalRisk(cats, recent, now)
             t == RiskTier(total_risk)
         IN [tier |-> t.tier, color |-> t.color, message |-> t.message,
             suggestions |-> t.suggestions, percent |-> RiskPercent(total_risk)]

(***************************************************************************)
(* calculate_risk on bounded inputs                                        *)
(***************************************************************************)
MaxCount == 1
MaxTimes == 3

\* the moment of the call: 2026-11-01 10:30
Now0 == [day |-> 739921, minute |-> 630]
\* later the same day: 70 minutes ahead, which is -1 whole days ago
TimeLater == [day |-> 739921, minute |-> 700]
\* a week before
TimeWeekAgo == [day |-> 739914, minute |-> 630]
\* 5000 days ahead (2040-07-10)
TimeFarFuture == [day |-> 744921, minute |-> 630]

TimePool == {Time1, TimeLater, TimeWeekAgo, TimeFarFuture}

\* the spec's scenarios: 50 YouTube records alone, 10,000 Maps records
YouTube50 == [GenericCategories EXCEPT !["YouTube"] = 50]
Maps10000 == [GenericCategories EXCEPT !["Maps"] = 10000]

CategoryInputs ==
    [DOMAIN GenericCategories -> 0..MaxCount]
        \cup [DOMAIN SearchCategories -> 0..MaxCount]
        \cup [DOMAIN DiscoverCategories -> 0..MaxCount]
        \cup {YouTube50, Maps10000}

InitRisk ==
    /\ risk_in \in [categories : CategoryInputs,
                    recent : SeqsUpTo(TimePool, MaxTimes),
                    now : {Now0}]
    /\ risk_out = NoResult
    /\ Top5Idle /\ PassIdle /\ UploadIdle

CallRisk ==
    /\ risk_out = NoResult
    /\ risk_out' = calculate_risk(risk_in.categories, risk_in.recent, risk_in.now)
    /\ UNCHANGED <<risk_in, top5Vars, passVars, uploadVars>>

NextRisk == CallRisk

SpecRisk == InitRisk /\ [][NextRisk]_vars

(***************************************************************************)
(* upload_file: the /upload handler, one run per request. Flask serves     *)
(* requests on threads, so the runs of different requests interleave; the  *)
(* steps below are cut at the accesses to the file system, the one thing   *)
(* the runs share: each step is one such access with the statements that   *)
(* lead to it, and the last one goes on to the return.                     *)
(***************************************************************************)
\* an analyzer run whole: the loop over the divs of the document, then the return
RECURSIVE RunBlocks(_, _, _)
RunBlocks(k, st, divs) ==
    IF divs = <<>> THEN st
    ELSE RunBlocks(k,
                   CASE k = "generic" -> GenericStep(st, Head(divs))
                     [] k = "search" -> SearchStep(st, Head(divs))
                     [] k = "youtube" -> YoutubeStep(st, Head(divs))
                     [] k = "discover" -> DiscoverStep(st, Head(divs)),
                   Tail(divs))

RunAnalyzer(k, divs) ==
    LET st == RunBlocks(k, PassStart(StartCategories(k)), divs)
    IN CASE k = "generic" -> GenericReturn(st)
         [] k = "search" -> SearchReturn(st)
         [] k = "youtube" -> YoutubeReturn(st)
         [] k = "discover" -> DiscoverReturn(st)

\* the chain with its first two tests swapped: youtube or watch before search
ChooseAnalyzer_YoutubeFirst(filename_lower) ==
    IF Contains(<<"y","o","u","t","u","b","e">>, filename_lower) \/ Contains(<<"w","a","t","c","h">>, filename_lower)
    THEN "youtube"
    ELSE IF Contains(<<"s","e","a","r","c","h">>, filename_lower) THEN "search"
    ELSE IF Contains(<<"d","i","s","c","o","v","e","r">>, filename_lower)
            \/ Contains(<<"m","y","a","c","t","i","v","i","t","y">>, filename_lower)
         THEN "discover"
    ELSE "generic"

\* the if / elif chain on filename_lower that picks the analyzer
ChooseAnalyzer(filename_lower) ==
    IF Contains(<<"s","e","a","r","c","h">>, filename_lower) THEN "search"
    ELSE IF Contains(<<"y","o","u","t","u","b","e">>, filename_lower) \/ Contains(<<"w","a","t","c","h">>, filename_lower)
         THEN "youtube"
    ELSE IF Contains(<<"d","i","s","c","o","v","e","r">>, filename_lower)
            \/ Contains(<<"m","y","a","c","t","i","v","i","t","y">>, filename_lower)
         THEN "discover"
    ELSE "generic"

\* re.sub(r'\W+', '_', filename_lower): every run of non-word characters becomes "_"
SafeFilename(s) ==
    LET keep == {i \in DOMAIN s : IsWord(s[i]) \/ i = 1 \/ IsWord(s[i - 1])}
        Nth(j) == CHOOSE i \in keep : Cardinality({k \in keep : k <= i}) = j
    IN [j \in 1..Cardinality(keep) |-> IF IsWord(s[Nth(j)]) THEN s[Nth(j)] ELSE "_"]

\* os.path.join(app.config['UPLOAD_FOLDER'], filename)
UploadPath(filename) == <<"uploads", filename>>
\* os.path.join('static', 'activity_chart.png')
PieChartName == <<"a","c","t","i","v","i","t","y","_","c","h","a","r","t",".","p","n","g">>
PieChartPath(filename) == <<"static", PieChartName>>
\* f"top5_{safe_filename}.png", and its place under static
Top5ChartName(filename) == <<"t","o","p","5","_">> \o SafeFilename(Lower(filename)) \o <<".","p","n","g">>
Top5ChartPath(filename) == <<"static", Top5ChartName(filename)>>

\* {k: v for k, v in categories.items() if v > 0}
FilteredCategories(cats) == {k \in DOMAIN cats : cats[k] > 0}

\* [(label, count) for label, count in (top5_data or []) if label and count
\*  and label != "No data found"]
KeepPlotPair(pair) == pair[1] # <<>> /\ pair[2] # 0 /\ pair[1] # NoDataFound
Top5PlotData(top5) == SelectSeq(top5, KeepPlotPair)

NReq == 2
Reqs == 1..NReq

\* a block whose label parses to a time 5000 days ahead
\* <div>Visited a page<span>July 10, 2040 at 10:30</span></div>
BlockFuture ==
    [strings |-> <<<<"V","i","s","i","t","e","d"," ","a"," ","p","a","g","e">>, <<"J","u","l","y"," ","1","0",","," ","2","0","4","0"," ","a","t"," ","1","0",":","3","0">>>>, a |-> None,
     span_dt |-> TimeFarFuture]

DocPlain == <<BlockSearchTime, BlockWatched>>
DocFuture == <<BlockDiscover, BlockFuture>>
DocPool == {DocPlain, DocFuture}

FilenamePool == {<<"Y","o","u","T","u","b","e"," ","S","e","a","r","c","h",".","h","t","m","l">>, <<"w","a","t","c","h","-","d","i","s","c","o","v","e","r",".","h","t","m","l">>, <<"M","y","A","c","t","i","v","i","t","y",".","h","t","m","l">>,
                 <<"m","a","p","s",".","h","t","m","l">>, <<>>}

\* what the analyzers return on the documents of the model, tabulated
AnalyzerResults == [k \in Kinds |-> [d \in DocPool |-> RunAnalyzer(k, d)]]

IdleRequest ==
    [pc |-> "idle", filename |-> <<>>, ran |-> <<>>,
     categories |-> <<>>, top5_data |-> <<>>, risk |-> <<>>,
     chart_url |-> None, top5_chart_url |-> None, wrote |-> {}, response |-> None]

\* a write to path: the file now holds content, written by request r
WriteFile(files, path, r, content) == (path :> [writer |-> r, content |-> content]) @@ files

Init ==
    /\ req = [r \in Reqs |-> IdleRequest]
    /\ fs = <<>>
    /\ Top5Idle /\ PassIdle /\ RiskIdle

\* a POST without a 'file' part
NoFilePart(r) ==
    /\ req[r].pc = "idle"
    /\ req' = [req EXCEPT ![r].pc = "done", ![r].response = "No file part"]
    /\ UNCHANGED <<fs, top5Vars, passVars, riskVars>>

\* a POST with a file, its name and its content: the checks on the request, then
\* file.save(filepath)
SaveUpload(r) ==
    /\ req[r].pc = "idle"
    /\ \E f \in FilenamePool, d \in DocPool :
          IF f = <<>>
          THEN /\ req' = [req EXCEPT ![r].pc = "done", ![r].response = "No selected file"]
               /\ fs' = fs
          ELSE /\ fs' = WriteFile(fs, UploadPath(f), r, d)
               /\ req' = [req EXCEPT ![r].pc = "analyze", ![r].filename = f,
                                     ![r].wrote = @ \cup {UploadPath(f)}]
    /\ UNCHANGED <<top5Vars, passVars, riskVars>>

\* the chosen analyzer reads the file at filepath, then calculate_risk; an
\* exception ends the request with "Internal Server Error"
Analyze(r) ==
    /\ req[r].pc = "analyze"
    /\ \E k \in {ChooseAnalyzer(Lower(req[r].filename))} :
       \E res \in {AnalyzerResults[k][fs[UploadPath(req[r].filename)].content]} :
       \E risk \in {calculate_risk(res.categories, res.activity_times, Now0)} :
          req' = [req EXCEPT ![r] =
                     IF risk = OverflowError
                     THEN [@ EXCEPT !.pc = "done", !.ran = Append(@, k),
                                    !.response = "Internal Server Error"]
                     ELSE [@ EXCEPT !.pc = "pie", !.ran = Append(@, k),
                                    !.categories = res.categories,
                                    !.top5_data = res.top5_data,
                                    !.risk = risk]]
    /\ UNCHANGED <<fs, top5Vars, passVars, riskVars>>

\* plt.savefig(os.path.join('static', chart_url)), when a category is non-zero
PieChart(r) ==
    /\ req[r].pc = "pie"
    /\ IF FilteredCategories(req[r].categories) # {}
       THEN /\ fs' = WriteFile(fs, PieChartPath(req[r].filename), r,
                                 [k \in FilteredCategories(req[r].categories) |->
                                     req[r].categories[k]])
            /\ req' = [req EXCEPT ![r].pc = "top5",
                                  ![r].chart_url = PieChartName,
                                  ![r].wrote = @ \cup {PieChartPath(req[r].filename)}]
       ELSE /\ req' = [req EXCEPT ![r].pc = "top5"]
            /\ fs' = fs
    /\ UNCHANGED <<top5Vars, passVars, riskVars>>

\* plt.savefig(os.path.join('static', top5_chart_url)), when there is data to plot,
\* then return render_template('index.html', ...)
Top5Chart(r) ==
    /\ req[r].pc = "top5"
    /\ IF Top5PlotData(req[r].top5_data) # <<>>
       THEN /\ fs' = WriteFile(fs, Top5ChartPath(req[r].filename), r,
                                 Top5PlotData(req[r].top5_data))
            /\ req' = [req EXCEPT ![r].pc = "done", ![r].response = "index.html",
                                  ![r].top5_chart_url = Top5ChartName(req[r].filename),
                                  ![r].wrote = @ \cup {Top5ChartPath(req[r].filename)}]
       ELSE /\ req' = [req EXCEPT ![r].pc = "done", ![r].response = "index.html"]
            /\ fs' = fs
    /\ UNCHANGED <<top5Vars, passVars, riskVars>>

Next ==
    \E r \in Reqs :
        \/ NoFilePart(r)
        \/ SaveUpload(r)
        \/ Analyze(r)
        \/ PieChart(r)
        \/ Top5Chart(r)

Spec == Init /\ [][Next]_vars

(***************************************************************************)
(* Properties                                                              *)
(***************************************************************************)
\* sum(categories.values())
RECURSIVE SumOver(_, _)
SumOver(cats, keys) ==
    IF keys = {} THEN 0
    ELSE LET k == CHOOSE c \in keys : TRUE IN cats[k] + SumOver(cats, keys \ {k})
SumCats(cats) == SumOver(cats, DOMAIN cats)

\* a step of the pass that runs the loop body on one more block
IsBlockStep == idx' = idx + 1
\* the step of the pass that returns
IsReturnStep == top5_data = NoResult /\ top5_data' # NoResult
\* the step adds exactly 1 to exactly one counter and leaves the others alone
OneCounterUp == \E c \in DOMAIN categories : categories' = Inc(categories, c)

\* C1, as the spec states it: in every extractor each processed block increments
\* exactly one category counter by exactly 1, so that the counts returned add up to
\* the number of blocks processed.
C1_EveryExtractorCountsBlocks ==
    [][/\ IsBlockStep => OneCounterUp
       /\ IsReturnStep => SumCats(categories') = Len(doc)]_vars

\* C1, amended: the generic and the search-specific extractor increment exactly one
\* counter by exactly 1 per block, and return counts that add up to the number of
\* blocks; the video-specific and the discover-specific extractor leave the counters
\* alone block by block and set them when they return, to the sizes of the lists
\* they collected (titles and queries; items).
C1_PerBlockCountersGenericSearch ==
    [][/\ kind \in {"generic", "search"} =>
            /\ IsBlockStep => OneCounterUp
            /\ IsReturnStep => categories' = categories /\ SumCats(categories') = Len(doc)
       /\ kind \in {"youtube", "discover"} /\ IsBlockStep => categories' = categories
       /\ kind = "youtube" /\ IsReturnStep =>
            categories' = [YoutubeCategories EXCEPT !["YouTube"] = Len(video_titles),
                                                    !["Search"] = Len(search_queries)]
       /\ kind = "discover" /\ IsReturnStep =>
            categories' = [DiscoverCategories EXCEPT !["Discover"] = Len(items)]]_vars

\* a generic pass has returned on two blocks that went to two different counters
C1_Witness ==
    /\ kind = "generic" /\ top5_data # NoResult /\ Len(doc) = 2
    /\ SumCats(categories) = 2
    /\ Cardinality({c \in DOMAIN categories : categories[c] = 1}) = 2

\* the search phrase the search-specific extractor stops at in text, 0 when none
FirstSearchPhrase(text) ==
    LET found == {i \in DOMAIN SearchPhrases : Contains(SearchPhrases[i], text)}
    IN IF found = {} THEN 0 ELSE Min(found)

\* text holds a search phrase followed by a query and an " at H:MM" time fragment
HasTimedQuery(text) ==
    /\ FirstSearchPhrase(text) # 0
    /\ LET rest == AfterFirst(SearchPhrases[FirstSearchPhrase(text)], text)
       IN \E i \in DOMAIN rest : i > 1 /\ TimeMatchAt(rest, i) > 0

\* the query of text as the spec describes it: what follows the phrase, without the
\* time fragment, normalized, without a leading connector
QueryWithoutTime(text) ==
    StripConnector(clean_text(StripTime(
        AfterFirst(SearchPhrases[FirstSearchPhrase(text)], text))))

BlockText(i) == get_text(doc[i], <<" ">>)

\* C2: in the search-specific extractor a block whose text holds a search phrase, a
\* query and a trailing " at H:MM" fragment adds 1 to Search and appends the
\* normalized query without the time fragment; "Searched for cats and dogs at 10:30"
\* gives the item "cats and dogs".
C2_TimeFragmentStripped ==
    kind = "search" /\ idx > 0 /\ HasTimedQuery(BlockText(idx)) =>
        /\ items # <<>>
        /\ items[Len(items)] = QueryWithoutTime(BlockText(idx))
        /\ BlockText(idx) = <<"S","e","a","r","c","h","e","d"," ","f","o","r"," ","c","a","t","s"," ","a","n","d"," ","d","o","g","s"," ","a","t"," ","1","0",":","3","0">>
              => items[Len(items)] = <<"c","a","t","s"," ","a","n","d"," ","d","o","g","s">>
        /\ categories["Search"]
              = Cardinality({i \in 1..idx : FirstSearchPhrase(BlockText(i)) # 0})

\* C3: in the video-specific extractor a block appends at most one query, so the
\* Search count never exceeds the number of blocks.
C3_AtMostOneQueryPerBlock ==
    kind = "youtube" =>
        /\ Len(search_queries) <= idx
        /\ top5_data # NoResult => categories["Search"] <= Len(doc)

\* C5: the ranked list the discover-specific extractor returns is topFive of the
\* items it collected.
C5_DiscoverUsesTopFive ==
    kind = "discover" /\ top5_data # NoResult => top5_data = top5_from_list(items)

\* the cleaned items top5_from_list counts, for the argument items_in
CleanedIn ==
    LET kept == SelectSeq(items_in, HasText)
    IN SelectSeq([i \in DOMAIN kept |-> CleanItem(kept[i])], NonEmpty)
FirstSeen(label) == Min({i \in DOMAIN CleanedIn : CleanedIn[i] = label})
Frequency(label) == Cardinality({i \in DOMAIN CleanedIn : CleanedIn[i] = label})

\* the list is in descending order of count, equal counts in first-encountered order,
\* and every count is the label's frequency
RankedByFrequency(top5) ==
    /\ \A i \in DOMAIN top5 : top5[i][2] = Frequency(top5[i][1])
    /\ \A i, j \in DOMAIN top5 :
          i < j => \/ top5[i][2] > top5[j][2]
                   \/ /\ top5[i][2] = top5[j][2]
                      /\ FirstSeen(top5[i][1]) < FirstSeen(top5[j][1])

\* C4, as the spec states it: for ["a","a","b","b"] the result lists ("a",2) before
\* ("b",2).
C4_TieBreakOnAAndB ==
    items_in = <<<<"a">>, <<"a">>, <<"b">>, <<"b">>>> /\ top5_out # NoResult =>
        top5_out = << <<<<"a">>, 2>>, <<<<"b">>, 2>> >>

\* C4, amended: top5_from_list ranks the labels that survive normalization and the
\* noise filter by descending frequency, ties in first-encountered order; the items
\* ["a","a","b","b"] do not survive (the filter drops words of one or two
\* characters) and give the sentinel; ["abc","abc","bcd","bcd"] gives ("abc",2)
\* before ("bcd",2).
C4_TieBreakFirstEncountered ==
    top5_out # NoResult =>
        /\ top5_out # Sentinel => RankedByFrequency(top5_out)
        /\ items_in = <<<<"a">>, <<"a">>, <<"b">>, <<"b">>>> => top5_out = Sentinel
        /\ items_in = <<<<"a","b","c">>, <<"a","b","c">>, <<"b","c","d">>, <<"b","c","d">>>>
              => top5_out = << <<<<"a","b","c">>, 2>>, <<<<"b","c","d">>, 2>> >>

\* a tie decided by the order of first encounter, against the alphabetical order
C4_Witness ==
    /\ items_in = <<<<"b","c","d">>, <<"a","b","c">>, <<"a","b","c">>, <<"b","c","d">>>>
    /\ top5_out = << <<<<"b","c","d">>, 2>>, <<<<"a","b","c">>, 2>> >>

\* calculate_risk has returned (it did not raise)
RiskReturned == risk_out # NoResult /\ risk_out # OverflowError
\* the total score of the call's arguments
TotalIn == TotalRisk(risk_in.categories, risk_in.recent, risk_in.now)
AllCountsZero == \A c \in DOMAIN risk_in.categories : risk_in.categories[c] = 0

\* C7: the tier comes from the total score: total <= 3 Low, 3 < total <= 10 Medium,
\* total > 10 High, each with its fixed color, headline and three suggestions; all
\* counts zero and no timestamps give Low and percent 0.
C7_TierFromTotal ==
    RiskReturned =>
        /\ TotalIn <= 3 * Micro =>
              /\ risk_out.tier = "Low" /\ risk_out.color = "green"
              /\ risk_out.message = "Low tracking detected."
              /\ risk_out.suggestions = LowRisk.suggestions
        /\ TotalIn > 3 * Micro /\ TotalIn <= 10 * Micro =>
              /\ risk_out.tier = "Medium" /\ risk_out.color = "#ffcc00"
              /\ risk_out.message = "Moderate tracking detected."
              /\ risk_out.suggestions = MediumRisk.suggestions
        /\ TotalIn > 10 * Micro =>
              /\ risk_out.tier = "High" /\ risk_out.color = "red"
              /\ risk_out.message = "Heavy tracking detected recently."
              /\ risk_out.suggestions = HighRisk.suggestions
        /\ Len(risk_out.suggestions) = 3
        /\ AllCountsZero /\ risk_in.recent = <<>> =>
              risk_out.tier = "Low" /\ risk_out.percent = 0

\* a total just above 3: the tier is Medium though the percent is still 20
C7_Witness ==
    /\ RiskReturned /\ TotalIn > 3 * Micro
    /\ risk_out.tier = "Medium" /\ risk_out.percent = 20

\* C8: for all non-negative counts and all timestamp sequences, timestamps in the
\* future included, calculate_risk returns a percent that is an integer in 0..100.
C8_PercentInRange ==
    risk_out # NoResult =>
        /\ risk_out # OverflowError
        /\ risk_out.percent \in 0..100

\* C10: the tier and the percent of one call agree: Low has percent <= 20, Medium has
\* 20 <= percent <= 66, High has percent >= 66.
C10_TierAgreesWithPercent ==
    RiskReturned =>
        /\ risk_out.tier = "Low" => risk_out.percent <= 20
        /\ risk_out.tier = "Medium" => risk_out.percent >= 20 /\ risk_out.percent <= 66
        /\ risk_out.tier = "High" => risk_out.percent >= 66

\* a total of exactly 3 (three timestamps of today, no records): Low at percent 20
C10_Witness ==
    /\ RiskReturned /\ TotalIn = 3 * Micro /\ AllCountsZero
    /\ risk_out.tier = "Low" /\ risk_out.percent = 20

\* the request is between its first statement and its return
Running(r) == req[r].pc \notin {"idle", "done"}

\* C6: the files a request writes are named after its uploaded filename, so two
\* requests running at the same time with different filenames write no path in
\* common, and neither overwrites what the other generated.
C6_NoSharedPath ==
    \A r1, r2 \in Reqs :
        r1 # r2 /\ Running(r1) /\ Running(r2) /\ req[r1].filename # req[r2].filename =>
            /\ req[r1].wrote \cap req[r2].wrote = {}
            /\ \A p \in req[r1].wrote : fs[p].writer = r1

\* the analyzer the spec's priority list gives for a filename
ExpectedAnalyzer(filename) ==
    LET low == Lower(filename)
    IN CASE Contains(<<"s","e","a","r","c","h">>, low) -> "search"
         [] ~Contains(<<"s","e","a","r","c","h">>, low)
            /\ (Contains(<<"y","o","u","t","u","b","e">>, low) \/ Contains(<<"w","a","t","c","h">>, low)) -> "youtube"
         [] ~Contains(<<"s","e","a","r","c","h">>, low) /\ ~Contains(<<"y","o","u","t","u","b","e">>, low)
            /\ ~Contains(<<"w","a","t","c","h">>, low)
            /\ (Contains(<<"d","i","s","c","o","v","e","r">>, low) \/ Contains(<<"m","y","a","c","t","i","v","i","t","y">>, low)) -> "discover"
         [] OTHER -> "generic"

\* the request is past its analysis
Analyzed(r) ==
    \/ req[r].pc \in {"pie", "top5"}
    \/ req[r].pc = "done" /\ req[r].response \in {"index.html", "Internal Server Error"}

\* C9: the extractor is chosen from the lowercased filename, first match in the order
\* search; youtube or watch; discover or myactivity; else generic. Exactly one
\* extractor runs per request.
C9_DispatchByFilename ==
    \A r \in Reqs :
        /\ Analyzed(r) => req[r].ran = <<ExpectedAnalyzer(req[r].filename)>>
        /\ ~Analyzed(r) => req[r].ran = <<>>

\* a filename with both "youtube" and "search" in it went to the search extractor
C9_Witness ==
    \E r \in Reqs :
        /\ req[r].filename = <<"Y","o","u","T","u","b","e"," ","S","e","a","r","c","h",".","h","t","m","l">>
        /\ req[r].ran = <<"search">>
        /\ req[r].pc = "done" /\ req[r].response = "index.html"
====
